---- MODULE Spec2Model ----
(***************************************************************************)
(* Model of the ERP demo (Flask app erp_app.py): the master tables, the    *)
(* Inward/Outward journal tables, the monthly Excel archives written by    *)
(* append_row_to_sheet, the export-folder setting and the DC               *)
(* reconciliation of the /overall view; and of the archive functions of    *)
(* the Streamlit front end (streamlit_erp.py), which reads and writes the  *)
(* same monthly archives.                                                  *)
(*                                                                         *)
(* Text values that the code trims (form fields) are sequences of          *)
(* one-character strings, so that str.strip() is computed and not assumed. *)
(* Quantities and rates are integers standing for the floats of the code.  *)
(*                                                                         *)
(* The repository pins no pandas version.  pandas 1.2 and later open the   *)
(* target file in mode "wb" when pd.ExcelWriter is constructed, which      *)
(* creates or truncates it; earlier versions touch the file only on save.  *)
(* openTruncates is chosen in the initial state and never changes.         *)
(***************************************************************************)
EXTENDS Integers, Sequences, FiniteSets, TLC

VARIABLES
    EXPORT_DIR,     \* the module global EXPORT_DIR
    customer,       \* table customer: id -> [name, gst_no]
    item,           \* table item: id -> [name, hsn_code]
    inward,         \* table inward: id -> record (ids 1..n)
    outward,        \* table outward: id -> record (ids 1..n)
    files,          \* the file system: path -> file content
    openTruncates,  \* whether the installed pandas opens (and truncates) the
                    \* target file when pd.ExcelWriter(..., mode="w") is built
    resp,           \* the response to the last POST /inward, POST /outward
                    \* or GET /overall; for /overall it carries the rows
    thr             \* the request threads of the threaded server

vars == <<EXPORT_DIR, customer, item, inward, outward, files, openTruncates,
          resp, thr>>

------------------------------------------------------------------------------
(* Bounds of the model *)

MaxRecords == 2     \* appends (Inward + Outward) explored, archive properties
MaxJournal == 3     \* appends (Inward + Outward) explored, reconciliation
NThreads == 2       \* concurrent request threads
CustIds == {1}      \* ids the customer table holds in the model
ItemIds == {1}      \* ids the item table holds in the model

------------------------------------------------------------------------------
(* Values *)

SheetNames == {"Inward", "Outward"}

\* request.form.get(...) of a field that was not posted
NoneVal == <<"None">>
\* an empty spreadsheet cell, as pandas reads it back
NaN == <<"NaN">>

Max(S) == CHOOSE m \in S : \A x \in S : x <= m

RECURSIVE LStrip(_)
LStrip(s) == IF s # <<>> /\ Head(s) = " " THEN LStrip(Tail(s)) ELSE s

RECURSIVE RStrip(_)
RStrip(s) ==
    IF s # <<>> /\ s[Len(s)] = " " THEN RStrip(SubSeq(s, 1, Len(s) - 1)) ELSE s

\* str.strip()
Strip(s) == RStrip(LStrip(s))

\* the Python str of a sequence of characters
RECURSIVE Join(_)
Join(s) == IF s = <<>> THEN "" ELSE Head(s) \o Join(Tail(s))

\* f"{n:02d}"
Pad2(n) == IF n < 10 THEN "0" \o ToString(n) ELSE ToString(n)

\* date.strftime("%Y-%m-%d"); a date is <<year, month, day>>
StrfDate(d) == ToString(d[1]) \o "-" \o Pad2(d[2]) \o "-" \o Pad2(d[3])

\* os.path.join(dir, name)
PathJoin(dir, name) == dir \o "/" \o name

month_filename_for(dir, d) ==
    PathJoin(dir, ToString(d[1]) \o "-" \o Pad2(d[2]) \o ".xlsx")

------------------------------------------------------------------------------
(* Files: a path holds no file, a file that is not a workbook (zero bytes  *)
(* or partly written), or a workbook with named sheets of rows.            *)

NoRows == [s \in SheetNames |-> <<>>]
Absent == [kind |-> "absent", names |-> {}, rows |-> NoRows]
Invalid == [kind |-> "invalid", names |-> {}, rows |-> NoRows]
Workbook(names, rows) == [kind |-> "xlsx", names |-> names, rows |-> rows]

\* os.path.exists
PathExists(f) == f.kind # "absent"

Ok(df) == [exc |-> "none", df |-> df]
Raise(e) == [exc |-> e, df |-> <<>>]

\* pd.read_excel(path, sheet_name=sheet, engine="openpyxl")
read_excel(f, sheet) ==
    IF f.kind = "absent" THEN Raise("FileNotFoundError")
    ELSE IF f.kind = "invalid" THEN Raise("BadZipFile")
    ELSE IF sheet \notin f.names THEN Raise("ValueError")
    ELSE Ok(f.rows[sheet])

\* DataFrame.to_excel of one cell: None and "" are written as an empty cell
ToCell(v) == IF v = NoneVal \/ v = <<>> THEN NaN ELSE v

OtherSheet(sheet_name) == IF sheet_name = "Outward" THEN "Inward" ELSE "Outward"

------------------------------------------------------------------------------
(* append_row_to_sheet, statement by statement.  The sequential handlers   *)
(* run the four steps back to back; the threaded server interleaves them.  *)

\* the file at a path of the file system fs
FileAt(fs, p) == IF p \in DOMAIN fs THEN fs[p] ELSE Absent

LoadDf_Prepend(f, sheet_name, row_dict) ==
    IF PathExists(f)
    THEN LET existing == read_excel(f, sheet_name) IN
         IF existing.exc = "none" THEN Ok(<<row_dict>> \o existing.df)
         ELSE IF existing.exc \in {"ValueError", "KeyError"} THEN Ok(<<row_dict>>)
         ELSE Raise(existing.exc)
    ELSE Ok(<<row_dict>>)

\* lines 73-82: the DataFrame to write to the target sheet
LoadDf(f, sheet_name, row_dict) ==
    IF PathExists(f)
    THEN LET existing == read_excel(f, sheet_name) IN
         IF existing.exc = "none" THEN Ok(Append(existing.df, row_dict))
         ELSE IF existing.exc \in {"ValueError", "KeyError"} THEN Ok(<<row_dict>>)
         ELSE Raise(existing.exc)
    ELSE Ok(<<row_dict>>)

\* line 86: pd.ExcelWriter(month_file, engine="openpyxl", mode="w").
\* A pandas that opens the handle here creates or truncates the file;
\* io = "open_fails" is the operating system refusing the open.
ExcelWriterOpen(f, truncates, io) ==
    IF ~truncates THEN [exc |-> "none", file |-> f]
    ELSE IF io = "open_fails" THEN [exc |-> "OSError", file |-> f]
    ELSE [exc |-> "none", file |-> Invalid]

\* lines 88-94: the sibling sheet, read from the file as it is now; every
\* exception is swallowed
ReadOther(f, sheet_name) ==
    IF PathExists(f)
    THEN LET other_df == read_excel(f, OtherSheet(sheet_name)) IN
         IF other_df.exc = "none" THEN [has |-> TRUE, df |-> other_df.df]
         ELSE [has |-> FALSE, df |-> <<>>]
    ELSE [has |-> FALSE, df |-> <<>>]

\* to_excel of a row: its text cells
RowToCells(row) ==
    [k \in DOMAIN row |->
        IF k \in {"customer_name", "customer_gst", "item_name", "hsn_code",
                  "dc_no_cust", "dc_unique_no_noncust"}
        THEN ToCell(row[k]) ELSE row[k]]

DfToCells(df) == [i \in 1..Len(df) |-> RowToCells(df[i])]

\* the workbook the writer holds after lines 92 and 96
BookOf(sheet_name, df, other) ==
    Workbook({sheet_name} \cup (IF other.has THEN {OtherSheet(sheet_name)} ELSE {}),
             [s \in SheetNames |->
                 IF s = sheet_name THEN DfToCells(df)
                 ELSE IF other.has THEN DfToCells(other.df) ELSE <<>>])

WriterClose_Swallow(f, truncates, sheet_name, df, other, io) ==
    IF io = "save_fails" THEN [exc |-> "none", file |-> Invalid]
    ELSE IF ~truncates /\ io = "open_fails" THEN [exc |-> "none", file |-> f]
    ELSE [exc |-> "none", file |-> BookOf(sheet_name, df, other)]

\* lines 96-97: to_excel and writer.close().  io = "save_fails" is a write
\* that breaks off and leaves a file that is no workbook.
WriterClose(f, truncates, sheet_name, df, other, io) ==
    IF io = "save_fails" THEN [exc |-> "OSError", file |-> Invalid]
    ELSE IF ~truncates /\ io = "open_fails" THEN [exc |-> "OSError", file |-> f]
    ELSE [exc |-> "none", file |-> BookOf(sheet_name, df, other)]

\* lines 68-97, run without interruption on the file f
append_row_to_sheet(f, truncates, sheet_name, row_dict, io) ==
    LET ld == LoadDf(f, sheet_name, row_dict) IN
    IF ld.exc # "none" THEN [exc |-> ld.exc, file |-> f]
    ELSE LET ow == ExcelWriterOpen(f, truncates, io) IN
         IF ow.exc # "none" THEN ow
         ELSE WriterClose(ow.file, truncates, sheet_name, ld.df,
                          ReadOther(ow.file, sheet_name), io)

------------------------------------------------------------------------------
(* The journal rows and the rows projected into the archives *)

InwardRecord_AmtSum(entry_date, customer_id, item_id, dc_no_cust, qty, rate) ==
    [entry_date |-> entry_date, customer_id |-> customer_id, item_id |-> item_id,
     dc_no_cust |-> dc_no_cust, qty |-> qty, rate |-> rate, amt |-> qty + rate]

InwardRecord(entry_date, customer_id, item_id, dc_no_cust, qty, rate) ==
    [entry_date |-> entry_date, customer_id |-> customer_id, item_id |-> item_id,
     dc_no_cust |-> dc_no_cust, qty |-> qty, rate |-> rate, amt |-> qty * rate]

OutwardRecord(entry_date, customer_id, item_id, dc_no_cust, dc_unique, qty) ==
    [entry_date |-> entry_date, customer_id |-> customer_id, item_id |-> item_id,
     dc_no_cust |-> dc_no_cust, dc_unique_no_noncust |-> dc_unique, qty |-> qty]

\* Customer.query.get(id) / Item.query.get(id) and the "x if row else ''" reads
Attr(tbl, id, field) == IF id \in DOMAIN tbl THEN tbl[id][field] ELSE <<>>

\* lines 271-281.  src is a ghost field naming the journal record the row
\* was built from; the code writes no such column.
InwardRow(id, r) ==
    [src |-> <<"Inward", id>>,
     entry_date |-> StrfDate(r.entry_date),
     customer_name |-> Attr(customer, r.customer_id, "name"),
     customer_gst |-> Attr(customer, r.customer_id, "gst_no"),
     item_name |-> Attr(item, r.item_id, "name"),
     hsn_code |-> Attr(item, r.item_id, "hsn_code"),
     dc_no_cust |-> r.dc_no_cust, qty |-> r.qty, rate |-> r.rate, amt |-> r.amt]

\* lines 361-370, with the same ghost field
OutwardRow(id, r) ==
    [src |-> <<"Outward", id>>,
     entry_date |-> StrfDate(r.entry_date),
     customer_name |-> Attr(customer, r.customer_id, "name"),
     customer_gst |-> Attr(customer, r.customer_id, "gst_no"),
     item_name |-> Attr(item, r.item_id, "name"),
     hsn_code |-> Attr(item, r.item_id, "hsn_code"),
     dc_no_cust |-> r.dc_no_cust,
     dc_unique_no_noncust |-> r.dc_unique_no_noncust, qty |-> r.qty]

\* the id SQLite gives the next row of a table
NextId(tbl) == IF DOMAIN tbl = {} THEN 1 ELSE Max(DOMAIN tbl) + 1

\* a query parameter read with type=int is <<>> for None, <<n>> for the integer n
Response(op, status, sheet, id, path) ==
    [op |-> op, status |-> status, sheet |-> sheet, id |-> id, path |-> path,
     cust_filter |-> <<>>, item_filter |-> <<>>, rows |-> <<>>]

NoResponse == Response("none", "none", "none", 0, "")

Idle == [pc |-> "idle"]

------------------------------------------------------------------------------
(* GET /overall: the filtered query and the DC reconciliation *)

\* str.upper() of the letters the model uses
Upper(s) == [i \in DOMAIN s |-> IF s[i] = "a" THEN "A" ELSE s[i]]

Key_Fold(dc) == Upper(Strip(IF dc = NoneVal THEN <<>> ELSE dc))

\* (x or "").strip()
Key(dc) == Strip(IF dc = NoneVal THEN <<>> ELSE dc)

\* "if cust_filter:" is false for None and for 0
Truthy(flt) == flt # <<>> /\ flt[1] # 0

\* lines 427-434: the filter_by calls
Matches(r, cust_filter, item_filter) ==
    /\ Truthy(cust_filter) => r.customer_id = cust_filter[1]
    /\ Truthy(item_filter) => r.item_id = item_filter[1]

\* d1 is a later date than d2
DateAfter(d1, d2) ==
    \/ d1[1] > d2[1]
    \/ d1[1] = d2[1] /\ d1[2] > d2[2]
    \/ d1[1] = d2[1] /\ d1[2] = d2[2] /\ d1[3] > d2[3]

\* line 436: the results order_by(entry_date.desc()) may return: every
\* listing of the matching ids, later dates first; the order of equal dates
\* is the database's choice
QueryOrders(tbl, cust_filter, item_filter) ==
    LET ids == {i \in DOMAIN tbl : Matches(tbl[i], cust_filter, item_filter)} IN
    {o \in [1..Cardinality(ids) -> ids] :
        /\ \A i, j \in DOMAIN o : i # j => o[i] # o[j]
        /\ \A i, j \in DOMAIN o :
              i < j => ~DateAfter(tbl[o[j]].entry_date, tbl[o[i]].entry_date)}

\* dc_map.setdefault(key, {"inward": 0.0, "outward": 0.0})
SetDefault(m, key) ==
    IF key \in DOMAIN m THEN m ELSE (key :> [inward |-> 0, outward |-> 0]) @@ m

RECURSIVE Accumulate_NoSkip(_, _, _, _)
Accumulate_NoSkip(m, tbl, i, side) ==
    IF i > Len(tbl) THEN m
    ELSE LET key == Key(tbl[i].dc_no_cust) IN
         Accumulate_NoSkip([SetDefault(m, key) EXCEPT ![key][side] = @ + tbl[i].qty],
                           tbl, i + 1, side)

\* lines 441-446 and 447-452: one pass over a whole table, from row i on
RECURSIVE Accumulate(_, _, _, _)
Accumulate(m, tbl, i, side) ==
    IF i > Len(tbl) THEN m
    ELSE LET key == Key(tbl[i].dc_no_cust) IN
         IF key = <<>> THEN Accumulate(m, tbl, i + 1, side)
         ELSE Accumulate([SetDefault(m, key) EXCEPT ![key][side] = @ + tbl[i].qty],
                         tbl, i + 1, side)

\* lines 441 and 447: the rows the passes read, Inward.query.all() and
\* Outward.query.all(), whatever the filters of the request
DcSource_Filtered(tbl, cust_filter, item_filter) ==
    SelectSeq(tbl, LAMBDA r : Matches(r, cust_filter, item_filter))

DcSource(tbl, cust_filter, item_filter) == tbl

\* lines 440-452, over the rows inw and outw
DcMap(inw, outw) == Accumulate(Accumulate(<<>>, inw, 1, "inward"), outw, 1, "outward")

OverallRow_Clamped(id, inv, dc_map) ==
    LET key == Key(inv.dc_no_cust)
        dispatched == IF key \in DOMAIN dc_map THEN dc_map[key].outward ELSE 0
        inward_total == IF key \in DOMAIN dc_map THEN dc_map[key].inward ELSE inv.qty
    IN  [id |-> id,
         date |-> StrfDate(inv.entry_date),
         customer |-> Attr(customer, inv.customer_id, "name"),
         item |-> Attr(item, inv.item_id, "name"),
         hsn |-> Attr(item, inv.item_id, "hsn_code"),
         dc_no_cust |-> key,
         qty_dispatch |-> dispatched,
         pending_qty |-> IF inward_total < dispatched THEN 0
                         ELSE inward_total - dispatched]

\* lines 457-472: the row shown for Inward record id (id is a ghost field)
OverallRow(id, inv, dc_map) ==
    LET key == Key(inv.dc_no_cust)
        dispatched == IF key \in DOMAIN dc_map THEN dc_map[key].outward ELSE 0
        inward_total == IF key \in DOMAIN dc_map THEN dc_map[key].inward ELSE inv.qty
    IN  [id |-> id,
         date |-> StrfDate(inv.entry_date),
         customer |-> Attr(customer, inv.customer_id, "name"),
         item |-> Attr(item, inv.item_id, "name"),
         hsn |-> Attr(item, inv.item_id, "hsn_code"),
         dc_no_cust |-> key,
         qty_dispatch |-> dispatched,
         pending_qty |-> inward_total - dispatched]

\* lines 439-472 for the query result listed in order
OverallRows(order, cust_filter, item_filter) ==
    LET dc_map == DcMap(DcSource(inward, cust_filter, item_filter),
                        DcSource(outward, cust_filter, item_filter))
    IN  [i \in DOMAIN order |-> OverallRow(order[i], inward[order[i]], dc_map)]

Overall(cust_filter, item_filter) ==
    /\ \E order \in QueryOrders(inward, cust_filter, item_filter) :
          resp' = [Response("overall", "ok200", "none", 0, "") EXCEPT
                      !.cust_filter = cust_filter, !.item_filter = item_filter,
                      !.rows = OverallRows(order, cust_filter, item_filter)]
    /\ UNCHANGED <<EXPORT_DIR, customer, item, inward, outward, files,
                   openTruncates, thr>>

------------------------------------------------------------------------------
(* POST /inward and POST /outward, handled without interruption *)

\* lines 263-283 / 354-372 after the commit: project and answer
Project(op, sheet_name, id, entry_date, row, io) ==
    LET month_file == month_filename_for(EXPORT_DIR, entry_date)
        res == append_row_to_sheet(FileAt(files, month_file), openTruncates,
                                   sheet_name, row, io)
    IN  /\ files' = IF res.file = Absent THEN files
                    ELSE (month_file :> res.file) @@ files
        /\ resp' = Response(op, IF res.exc = "none" THEN "redirect" ELSE "error500",
                            sheet_name, id, month_file)

InwardPost(entry_date, customer_id, item_id, dc_no_cust, qty, rate, io) ==
    /\ LET record == InwardRecord(entry_date, customer_id, item_id, dc_no_cust,
                                  qty, rate)
           id == NextId(inward)
       IN  /\ inward' = Append(inward, record)
           /\ Project("inward", "Inward", id, entry_date, InwardRow(id, record), io)
    /\ UNCHANGED <<EXPORT_DIR, customer, item, outward, openTruncates, thr>>

OutwardPost(entry_date, customer_id, item_id, dc_no_cust, dc_unique, qty, io) ==
    /\ LET record == OutwardRecord(entry_date, customer_id, item_id, dc_no_cust,
                                   dc_unique, qty)
           id == NextId(outward)
       IN  /\ outward' = Append(outward, record)
           /\ Project("outward", "Outward", id, entry_date, OutwardRow(id, record), io)
    /\ UNCHANGED <<EXPORT_DIR, customer, item, inward, openTruncates, thr>>

------------------------------------------------------------------------------
(* /master and /settings *)

\* lines 139-148
AddCustomer(name, gst_no) ==
    /\ NextId(customer) \in CustIds
    /\ customer' = (NextId(customer) :> [name |-> name, gst_no |-> gst_no]) @@ customer
    /\ UNCHANGED <<EXPORT_DIR, item, inward, outward, files, openTruncates, resp, thr>>

\* lines 149-156
AddItem(name, hsn_code) ==
    /\ NextId(item) \in ItemIds
    /\ item' = (NextId(item) :> [name |-> name, hsn_code |-> hsn_code]) @@ item
    /\ UNCHANGED <<EXPORT_DIR, customer, inward, outward, files, openTruncates,
                   resp, thr>>

DeleteCustomer_Cascade(cid) ==
    /\ customer' = [i \in DOMAIN customer \ {cid} |-> customer[i]]
    /\ files' = [p \in DOMAIN files |->
                    [files[p] EXCEPT !.rows = [s \in SheetNames |->
                        SelectSeq(files[p].rows[s],
                                  LAMBDA r : r.customer_name # Attr(customer, cid, "name"))]]]
    /\ UNCHANGED <<EXPORT_DIR, item, inward, outward, openTruncates, resp, thr>>

\* lines 161-166: Customer.query.filter_by(id=cid).delete()
DeleteCustomer(cid) ==
    /\ customer' = [i \in DOMAIN customer \ {cid} |-> customer[i]]
    /\ UNCHANGED <<EXPORT_DIR, item, inward, outward, files, openTruncates, resp, thr>>

\* lines 167-172: Item.query.filter_by(id=iid).delete()
DeleteItem(iid) ==
    /\ item' = [i \in DOMAIN item \ {iid} |-> item[i]]
    /\ UNCHANGED <<EXPORT_DIR, customer, inward, outward, files, openTruncates,
                   resp, thr>>

\* lines 537-542: POST /settings with the posted export_dir
SettingsPost(export_dir) ==
    /\ LET new_path == Strip(export_dir) IN
       EXPORT_DIR' = IF new_path # <<>> THEN Join(new_path) ELSE EXPORT_DIR
    /\ UNCHANGED <<customer, item, inward, outward, files, openTruncates, resp, thr>>

------------------------------------------------------------------------------
(* The application served one request at a time, the file system working *)

Dates == {<<2024, 1, 10>>, <<2024, 1, 20>>, <<2024, 11, 5>>}
DirInputs == {<<>>, <<" ", "/data", " ">>, <<"./exports">>}
CustomerInputs == {[name |-> <<"Acme">>, gst_no |-> <<"G1">>]}
ItemInputs == {[name |-> <<"Bolt">>, hsn_code |-> <<"7318">>]}

Init ==
    /\ EXPORT_DIR = "./exports"
    /\ customer = <<>>
    /\ item = <<>>
    /\ inward = <<>>
    /\ outward = <<>>
    /\ files = <<>>
    /\ openTruncates \in BOOLEAN
    /\ resp = NoResponse
    /\ thr = [t \in 1..NThreads |-> Idle]

\* fewer than n records have been appended
JournalBelow(n) == Len(inward) + Len(outward) < n

Next ==
    \/ /\ JournalBelow(MaxRecords)
       /\ \E d \in Dates, c \in CustIds, i \in ItemIds :
             InwardPost(d, c, i, <<"A">>, 10, 5, "ok")
    \/ /\ JournalBelow(MaxRecords)
       /\ \E d \in Dates, c \in CustIds, i \in ItemIds :
             OutwardPost(d, c, i, <<"A">>, <<"U">>, 10, "ok")
    \/ \E c \in CustomerInputs : AddCustomer(c.name, c.gst_no)
    \/ \E it \in ItemInputs : AddItem(it.name, it.hsn_code)
    \/ \E c \in CustIds : DeleteCustomer(c)
    \/ \E i \in ItemIds : DeleteItem(i)
    \/ \E e \in DirInputs : SettingsPost(e)

Spec == Init /\ [][Next]_vars

------------------------------------------------------------------------------
(* Properties of the archives and the journal *)

\* the rows of sheet s in the file at path p of file system fs
SheetRows(fs, p, s) == FileAt(fs, p).rows[s]
HasSheet(fs, p, s) == s \in FileAt(fs, p).names

\* the journal record an archive row was built from
RecordOf(row) ==
    IF row.src[1] = "Inward" THEN inward[row.src[2]] ELSE outward[row.src[2]]

YearMonth(d) == <<d[1], d[2]>>

\* the step is an append into the journal; Appended is its direction
AppendStep == Len(inward') > Len(inward) \/ Len(outward') > Len(outward)
Appended == IF Len(inward') > Len(inward) THEN "Inward" ELSE "Outward"

\* C1: a projection into one direction-table leaves the sibling
\* direction-table of every archive with the same rows in the same order
C1_SiblingTableKept ==
    [][AppendStep =>
         \A p \in DOMAIN files' :
            /\ SheetRows(files', p, OtherSheet(Appended))
                  = SheetRows(files, p, OtherSheet(Appended))
            /\ HasSheet(files, p, OtherSheet(Appended))
                  => HasSheet(files', p, OtherSheet(Appended))]_vars

\* C6: every Inward record has amt = qty * rate, and no step changes a
\* record the journal already holds
C6_AmountNeverDrifts ==
    /\ [](\A i \in DOMAIN inward : inward[i].amt = inward[i].qty * inward[i].rate)
    /\ [][\A i \in DOMAIN inward : inward'[i] = inward[i]]_vars

\* C6 witness: the record qty=10, rate=5, amt=50 was projected while its
\* customer existed, the customer has been deleted since and another record
\* has been appended
C6_Witness ==
    /\ Len(inward) >= 1 /\ Len(outward) >= 1
    /\ inward[1].qty = 10 /\ inward[1].rate = 5 /\ inward[1].amt = 50
    /\ customer = <<>>
    /\ \E p \in DOMAIN files : \E k \in DOMAIN SheetRows(files, p, "Inward") :
          LET row == SheetRows(files, p, "Inward")[k] IN
          row.src = <<"Inward", 1>> /\ row.customer_name = <<"Acme">>

\* C7: the rows of records with the same (year, month) all lie in one
\* archive, whatever the export folder was when they were appended
C7_OneArchivePerMonth ==
    \A p1 \in DOMAIN files, p2 \in DOMAIN files, s1 \in SheetNames, s2 \in SheetNames :
       \A k1 \in DOMAIN SheetRows(files, p1, s1), k2 \in DOMAIN SheetRows(files, p2, s2) :
          YearMonth(RecordOf(SheetRows(files, p1, s1)[k1]).entry_date)
             = YearMonth(RecordOf(SheetRows(files, p2, s2)[k2]).entry_date)
          => p1 = p2

\* C10: a delete leaves every archive as it was, and only an append
\* changes an archive
C10_DeleteKeepsArchives ==
    [][/\ (DOMAIN customer' # DOMAIN customer \/ DOMAIN item' # DOMAIN item)
            /\ ~AppendStep => files' = files
       /\ files' # files => AppendStep]_vars

\* C10 witness: an archive still holds the row of a customer deleted since
C10_Witness ==
    /\ customer = <<>>
    /\ \E p \in DOMAIN files, s \in SheetNames : \E k \in DOMAIN SheetRows(files, p, s) :
          SheetRows(files, p, s)[k].customer_name = <<"Acme">>

------------------------------------------------------------------------------
(* The application with populated master tables, served one request at a  *)
(* time, under any posted values and with the file system failing         *)

IoOutcomes == {"ok", "open_fails", "save_fails"}
PostedIds == {1, 2}
PostedQtys == {-1, 10}

InitServing ==
    /\ EXPORT_DIR = "./exports"
    /\ customer = <<[name |-> <<"Acme">>, gst_no |-> <<"G1">>]>>
    /\ item = <<[name |-> <<"Bolt">>, hsn_code |-> <<"7318">>]>>
    /\ inward = <<>>
    /\ outward = <<>>
    /\ files = <<>>
    /\ openTruncates \in BOOLEAN
    /\ resp = NoResponse
    /\ thr = [t \in 1..NThreads |-> Idle]

NextFaults ==
    \/ /\ JournalBelow(MaxRecords)
       /\ \E d \in Dates, c \in PostedIds, q \in PostedQtys, io \in IoOutcomes :
             InwardPost(d, c, 1, <<"A">>, q, 5, io)
    \/ /\ JournalBelow(MaxRecords)
       /\ \E d \in Dates, c \in PostedIds, q \in PostedQtys, io \in IoOutcomes :
             OutwardPost(d, c, 1, <<"A">>, <<"U">>, q, io)

SpecFaults == InitServing /\ [][NextFaults]_vars

\* the record appended by an append step
NewRecord == IF Appended = "Inward" THEN inward'[Len(inward')]
             ELSE outward'[Len(outward')]

\* C8: a step adds a record to the journal or changes an archive only for
\* an append whose customer and item resolve and whose qty is not negative
C8_InvalidAppendRejected ==
    [][(inward' # inward \/ outward' # outward \/ files' # files) =>
          /\ AppendStep
          /\ NewRecord.customer_id \in DOMAIN customer
          /\ NewRecord.item_id \in DOMAIN item
          /\ NewRecord.qty >= 0]_vars

\* the last append's record is in the journal / its row is in its archive
LastInJournal ==
    resp.id \in DOMAIN (IF resp.sheet = "Inward" THEN inward ELSE outward)
LastInArchive ==
    \E k \in DOMAIN SheetRows(files, resp.path, resp.sheet) :
       SheetRows(files, resp.path, resp.sheet)[k].src = <<resp.sheet, resp.id>>

\* C9: after an append the record is in the journal, also when the archive
\* rewrite failed, and when its row is missing from the archive the append
\* was not answered as a success
C9_ExportFailureReported ==
    resp.op \in {"inward", "outward"} =>
       /\ LastInJournal
       /\ ~LastInArchive => resp.status # "redirect"

\* C9 witness: the rewrite failed after the commit
C9_Witness ==
    /\ resp.op \in {"inward", "outward"}
    /\ resp.status = "error500"
    /\ LastInJournal /\ ~LastInArchive
    /\ FileAt(files, resp.path).kind = "invalid"

------------------------------------------------------------------------------
(* The journal and GET /overall: appends on one date with varied DC        *)
(* references, customers and quantities, and the view under every filter   *)

InwardInputs ==
    {[entry_date |-> <<2024, 1, 10>>, customer_id |-> 1, item_id |-> 1, qty |-> 10,
      dc_no_cust |-> <<"A">>],
     [entry_date |-> <<2024, 1, 20>>, customer_id |-> 2, item_id |-> 1, qty |-> 5,
      dc_no_cust |-> <<"B">>],
     [entry_date |-> <<2024, 1, 10>>, customer_id |-> 2, item_id |-> 2, qty |-> 5,
      dc_no_cust |-> <<" ", "A">>],
     [entry_date |-> <<2024, 1, 20>>, customer_id |-> 1, item_id |-> 1, qty |-> 10,
      dc_no_cust |-> NoneVal],
     [entry_date |-> <<2024, 1, 10>>, customer_id |-> 1, item_id |-> 1, qty |-> 10,
      dc_no_cust |-> <<>>],
     [entry_date |-> <<2024, 1, 20>>, customer_id |-> 2, item_id |-> 1, qty |-> 5,
      dc_no_cust |-> <<" ">>]}
OutwardInputs ==
    {[entry_date |-> <<2024, 1, 20>>, customer_id |-> 2, item_id |-> 2, qty |-> 6,
      dc_no_cust |-> <<"A", " ">>],
     [entry_date |-> <<2024, 1, 10>>, customer_id |-> 2, item_id |-> 1, qty |-> 6,
      dc_no_cust |-> <<>>]}
CustFilters == {<<>>, <<1>>, <<2>>}
ItemFilters == {<<>>, <<1>>, <<2>>}
FilterInputs == {<<<<>>, <<>>>>, <<<<1>>, <<>>>>, <<<<>>, <<1>>>>}

NextRecon ==
    \/ /\ JournalBelow(MaxJournal)
       /\ \E x \in InwardInputs :
             InwardPost(x.entry_date, x.customer_id, x.item_id, x.dc_no_cust,
                        x.qty, 5, "ok")
    \/ /\ JournalBelow(MaxJournal)
       /\ \E x \in OutwardInputs :
             OutwardPost(x.entry_date, x.customer_id, x.item_id, x.dc_no_cust,
                         <<"U">>, x.qty, "ok")
    \/ \E f \in FilterInputs : Overall(f[1], f[2])

SpecRecon == InitServing /\ [][NextRecon]_vars

\* n blanks
Blanks(n) == [i \in 1..n |-> " "]

\* dc is the key k with blanks around it; k is not empty and neither begins
\* nor ends with a blank
HasKey(dc, k) ==
    /\ dc # NoneVal
    /\ k # <<>> /\ k[1] # " " /\ k[Len(k)] # " "
    /\ \E a \in 0..Len(dc), b \in 0..Len(dc) : dc = Blanks(a) \o k \o Blanks(b)

\* dc is missing, empty or made of blanks only
IsBlank(dc) == dc = NoneVal \/ \A i \in DOMAIN dc : dc[i] = " "

RECURSIVE SumQty(_, _)
SumQty(tbl, ids) ==
    IF ids = {} THEN 0
    ELSE LET i == CHOOSE x \in ids : TRUE IN tbl[i].qty + SumQty(tbl, ids \ {i})

\* the sum of qty over the records of a table whose DC reference has key k
KeyTotal(tbl, k) == SumQty(tbl, {i \in DOMAIN tbl : HasKey(tbl[i].dc_no_cust, k)})

\* the keys the records of the journal carry
JournalKeys == {<<"A">>, <<"B">>}

\* C3: for every key k of the journal the reconciliation has
\* inward = sum of the Inward qty of k, outward = sum of the Outward qty of
\* k, and every row shown for k has dispatched = outward total and
\* pending = inward total - outward total, negative included
C3_PendingIsInwardMinusOutward ==
    /\ LET m == DcMap(inward, outward) IN
       \A k \in JournalKeys :
          (\E i \in DOMAIN inward : HasKey(inward[i].dc_no_cust, k))
             \/ (\E i \in DOMAIN outward : HasKey(outward[i].dc_no_cust, k))
          => /\ k \in DOMAIN m
             /\ m[k].inward = KeyTotal(inward, k)
             /\ m[k].outward = KeyTotal(outward, k)
    /\ resp.op = "overall" =>
          \A n \in DOMAIN resp.rows : \A k \in JournalKeys :
             HasKey(inward[resp.rows[n].id].dc_no_cust, k) =>
                /\ resp.rows[n].qty_dispatch = KeyTotal(outward, k)
                /\ resp.rows[n].pending_qty
                      = KeyTotal(inward, k) - KeyTotal(outward, k)

\* C3 witness: Inward 10, Inward 5 and Outward 6 on one key, written with
\* different blanks around it, are shown with dispatched 6 and pending 9
C3_Witness ==
    /\ resp.op = "overall"
    /\ Len(inward) = 2 /\ Len(outward) = 1
    /\ \A i \in DOMAIN inward : HasKey(inward[i].dc_no_cust, <<"A">>)
    /\ HasKey(outward[1].dc_no_cust, <<"A">>)
    /\ {inward[1].qty, inward[2].qty} = {10, 5}
    /\ Len(resp.rows) = 2
    /\ \A n \in DOMAIN resp.rows :
          resp.rows[n].qty_dispatch = 6 /\ resp.rows[n].pending_qty = 9

\* C4: the dispatched and pending quantities of a row shown are those the
\* same record is shown with under every other customer/item filter that
\* lists it
C4_TotalsSameUnderEveryFilter ==
    resp.op = "overall" =>
       \A n \in DOMAIN resp.rows : \A cf \in CustFilters, itf \in ItemFilters :
          Matches(inward[resp.rows[n].id], cf, itf) =>
             LET other == OverallRows(<<resp.rows[n].id>>, cf, itf)[1] IN
             /\ other.qty_dispatch = resp.rows[n].qty_dispatch
             /\ other.pending_qty = resp.rows[n].pending_qty

\* C4 witness: under the filter customer 1 a row shows the quantity
\* dispatched by records of customer 2, which the filter excludes
C4_Witness ==
    /\ resp.op = "overall" /\ resp.cust_filter = <<1>>
    /\ \A i \in DOMAIN outward : outward[i].customer_id = 2
    /\ \E n \in DOMAIN resp.rows :
          resp.rows[n].qty_dispatch = 6 /\ resp.rows[n].pending_qty = 4

\* C5: an Inward record with a blank DC reference adds to no aggregate (the
\* aggregates are those of the journal without the blank records, and no
\* aggregate has a blank key), and its row shows dispatched 0 and its own
\* qty pending
C5_BlankDcUntracked ==
    /\ LET m == DcMap(inward, outward) IN
       /\ \A k \in DOMAIN m : ~IsBlank(k)
       /\ m = DcMap(SelectSeq(inward, LAMBDA r : ~IsBlank(r.dc_no_cust)), outward)
    /\ resp.op = "overall" =>
          \A n \in DOMAIN resp.rows :
             IsBlank(inward[resp.rows[n].id].dc_no_cust) =>
                /\ resp.rows[n].qty_dispatch = 0
                /\ resp.rows[n].pending_qty = inward[resp.rows[n].id].qty

\* C5 witness: a whitespace-only Inward record is shown while the journal
\* holds an Outward record with a blank reference and a tracked key
C5_Witness ==
    /\ resp.op = "overall"
    /\ \E n \in DOMAIN resp.rows :
          /\ inward[resp.rows[n].id].dc_no_cust = <<" ">>
          /\ resp.rows[n].qty_dispatch = 0
          /\ resp.rows[n].pending_qty = inward[resp.rows[n].id].qty
    /\ \E i \in DOMAIN outward : outward[i].dc_no_cust = <<>>
    /\ \E i \in DOMAIN inward : HasKey(inward[i].dc_no_cust, <<"A">>)

------------------------------------------------------------------------------
(* The threaded server: app.run serves every request on a thread of its    *)
(* own, and the statements of append_row_to_sheet of two requests          *)
(* interleave.  Every thread serves one append into the month of ConcDate. *)

ConcDate == <<2024, 1, 10>>

Writer(pc, sheet_name, id, month_file, row_dict, df, other, status) ==
    [pc |-> pc, sheet |-> sheet_name, id |-> id, month_file |-> month_file,
     row |-> row_dict, df |-> df, other |-> other, status |-> status]

NoOther == [has |-> FALSE, df |-> <<>>]

\* lines 245-281: the commit, the file name and the row
BeginInward(t, entry_date, customer_id, item_id, dc_no_cust, qty, rate) ==
    /\ thr[t].pc = "idle"
    /\ LET record == InwardRecord(entry_date, customer_id, item_id, dc_no_cust,
                                  qty, rate)
           id == NextId(inward)
       IN  /\ inward' = Append(inward, record)
           /\ thr' = [thr EXCEPT ![t] =
                 Writer("load", "Inward", id, month_filename_for(EXPORT_DIR, entry_date),
                        InwardRow(id, record), <<>>, NoOther, "none")]
    /\ UNCHANGED <<EXPORT_DIR, customer, item, outward, files, openTruncates, resp>>

\* lines 338-370
BeginOutward(t, entry_date, customer_id, item_id, dc_no_cust, dc_unique, qty) ==
    /\ thr[t].pc = "idle"
    /\ LET record == OutwardRecord(entry_date, customer_id, item_id, dc_no_cust,
                                   dc_unique, qty)
           id == NextId(outward)
       IN  /\ outward' = Append(outward, record)
           /\ thr' = [thr EXCEPT ![t] =
                 Writer("load", "Outward", id, month_filename_for(EXPORT_DIR, entry_date),
                        OutwardRow(id, record), <<>>, NoOther, "none")]
    /\ UNCHANGED <<EXPORT_DIR, customer, item, inward, files, openTruncates, resp>>

\* lines 73-82 on thread t
StepLoad(t) ==
    /\ thr[t].pc = "load"
    /\ LET ld == LoadDf(FileAt(files, thr[t].month_file), thr[t].sheet, thr[t].row) IN
       thr' = [thr EXCEPT ![t] =
                 IF ld.exc = "none" THEN [@ EXCEPT !.pc = "open", !.df = ld.df]
                 ELSE [@ EXCEPT !.pc = "done", !.status = "error500"]]
    /\ UNCHANGED <<EXPORT_DIR, customer, item, inward, outward, files,
                   openTruncates, resp>>

\* line 86 on thread t
StepOpen(t, io) ==
    /\ thr[t].pc = "open"
    /\ LET ow == ExcelWriterOpen(FileAt(files, thr[t].month_file), openTruncates, io) IN
       /\ files' = IF ow.file = Absent THEN files
                   ELSE (thr[t].month_file :> ow.file) @@ files
       /\ thr' = [thr EXCEPT ![t] =
                    IF ow.exc = "none" THEN [@ EXCEPT !.pc = "other"]
                    ELSE [@ EXCEPT !.pc = "done", !.status = "error500"]]
    /\ UNCHANGED <<EXPORT_DIR, customer, item, inward, outward, openTruncates, resp>>

\* lines 88-94 on thread t
StepOther(t) ==
    /\ thr[t].pc = "other"
    /\ thr' = [thr EXCEPT ![t] =
                 [@ EXCEPT !.pc = "close",
                           !.other = ReadOther(FileAt(files, thr[t].month_file),
                                               thr[t].sheet)]]
    /\ UNCHANGED <<EXPORT_DIR, customer, item, inward, outward, files,
                   openTruncates, resp>>

\* lines 96-97 and the return of the handler on thread t
StepClose(t, io) ==
    /\ thr[t].pc = "close"
    /\ LET wc == WriterClose(FileAt(files, thr[t].month_file), openTruncates,
                             thr[t].sheet, thr[t].df, thr[t].other, io) IN
       /\ files' = IF wc.file = Absent THEN files
                   ELSE (thr[t].month_file :> wc.file) @@ files
       /\ thr' = [thr EXCEPT ![t] =
                    [@ EXCEPT !.pc = "done",
                              !.status = IF wc.exc = "none" THEN "redirect"
                                         ELSE "error500"]]
    /\ UNCHANGED <<EXPORT_DIR, customer, item, inward, outward, openTruncates, resp>>

NextConc ==
    \/ \E t \in 1..NThreads : BeginInward(t, ConcDate, 1, 1, <<"A">>, 10, 5)
    \/ \E t \in 1..NThreads : BeginOutward(t, ConcDate, 1, 1, <<"A">>, <<"U">>, 10)
    \/ \E t \in 1..NThreads : StepLoad(t)
    \/ \E t \in 1..NThreads : StepOpen(t, "ok")
    \/ \E t \in 1..NThreads : StepOther(t)
    \/ \E t \in 1..NThreads : StepClose(t, "ok")

SpecConc == InitServing /\ [][NextConc]_vars

\* C2: when the NThreads concurrent projections into one monthly archive
\* have all ended, the archive holds NThreads rows in its two tables
\* together
C2_NoProjectionLost ==
    (\A t \in 1..NThreads : thr[t].pc = "done") =>
        LET month_file == month_filename_for(EXPORT_DIR, ConcDate) IN
        Len(SheetRows(files, month_file, "Inward"))
           + Len(SheetRows(files, month_file, "Outward")) = NThreads

------------------------------------------------------------------------------
(* streamlit_erp.py: the Streamlit front end keeps the same monthly        *)
(* archives, by default in the same folder ./exports, with its own read    *)
(* and append functions.  A dict of DataFrames is a function from sheet    *)
(* names to rows.                                                          *)

DEFAULT_EXPORT_DIR == "./exports"

read_sheet_from_file_Raise(f, sheet) == read_excel(f, sheet)

\* lines 20-24: the sheet, or an empty DataFrame on any exception
read_sheet_from_file(f, sheet) ==
    LET r == read_excel(f, sheet) IN IF r.exc = "none" THEN r ELSE Ok(<<>>)

\* lines 39-46: every sheet of the file, or {} when the file is missing or
\* cannot be opened as a workbook
LoadSheets(f) ==
    IF PathExists(f) /\ f.kind = "xlsx" THEN [s \in f.names |-> f.rows[s]]
    ELSE <<>>

ConcatRow_Replace(sheets, sheet_name, row) ==
    [s \in DOMAIN sheets \cup {sheet_name} |->
        IF s = sheet_name THEN <<row>> ELSE sheets[s]]

\* lines 47-51: the row appended to the target sheet, or the target sheet
\* made of the row alone when it is missing or has no rows
ConcatRow(sheets, sheet_name, row) ==
    [s \in DOMAIN sheets \cup {sheet_name} |->
        IF s = sheet_name
        THEN IF sheet_name \in DOMAIN sheets /\ sheets[sheet_name] # <<>>
             THEN Append(sheets[sheet_name], row)
             ELSE <<row>>
        ELSE sheets[s]]

\* lines 53-55: the other sheet, empty, when the file did not have it
EnsureOther(sheets, sheet_name) ==
    [s \in DOMAIN sheets \cup {OtherSheet(sheet_name)} |->
        IF s \in DOMAIN sheets THEN sheets[s] ELSE <<>>]

\* lines 26-33: the file rewritten with the sheets of sheets_dict
write_workbook_sheets(f, truncates, sheets_dict, io) ==
    LET ow == ExcelWriterOpen(f, truncates, io) IN
    IF ow.exc # "none" THEN ow
    ELSE IF io = "save_fails" THEN [exc |-> "OSError", file |-> Invalid]
    ELSE IF ~truncates /\ io = "open_fails" THEN [exc |-> "OSError", file |-> f]
    ELSE [exc |-> "none",
          file |-> Workbook(DOMAIN sheets_dict,
                            [s \in SheetNames |->
                                IF s \in DOMAIN sheets_dict
                                THEN DfToCells(sheets_dict[s]) ELSE <<>>])]

\* lines 35-57 on the file f
append_row_to_month_file(f, truncates, sheet_name, row, io) ==
    write_workbook_sheets(f, truncates,
        EnsureOther(ConcatRow(LoadSheets(f), sheet_name, row), sheet_name), io)

\* a row as the Inward and Outward tabs build it; it has no journal record
StreamlitRow(date_obj, qty) ==
    [src |-> <<"Streamlit", 0>>,
     entry_date |-> StrfDate(date_obj),
     customer_name |-> <<"Acme">>, customer_gst |-> <<"G1">>,
     item_name |-> <<"Bolt">>, hsn_code |-> <<"7318">>,
     dc_no_cust |-> <<>>, qty |-> qty]

\* a save of the Inward or Outward tab: append_row_to_month_file
StreamlitAppend(export_dir, date_obj, sheet_name, row, io) ==
    /\ LET filepath == month_filename_for(export_dir, date_obj)
           res == append_row_to_month_file(FileAt(files, filepath), openTruncates,
                                           sheet_name, row, io)
       IN  /\ files' = IF res.file = Absent THEN files
                       ELSE (filepath :> res.file) @@ files
           /\ resp' = Response("st_append",
                               IF res.exc = "none" THEN "ok" ELSE "exception",
                               sheet_name, 0, filepath)
    /\ UNCHANGED <<EXPORT_DIR, customer, item, inward, outward, openTruncates, thr>>

\* a call of read_sheet_from_file
ReadSheet(filepath, sheet) ==
    /\ LET r == read_sheet_from_file(FileAt(files, filepath), sheet) IN
       resp' = [Response("read_sheet", IF r.exc = "none" THEN "ok" ELSE "exception",
                         sheet, 0, filepath) EXCEPT !.rows = r.df]
    /\ UNCHANGED <<EXPORT_DIR, customer, item, inward, outward, files,
                   openTruncates, thr>>

\* a is an earlier (year, month) than b, the order of the file names
MonthBefore(a, b) == a[1] < b[1] \/ (a[1] = b[1] /\ a[2] < b[2])

\* lines 59-62: the sorted .xlsx files of the folder, as (year, month)s
RECURSIVE SortMonths(_)
SortMonths(S) ==
    IF S = {} THEN <<>>
    ELSE LET m == CHOOSE x \in S : \A y \in S : y = x \/ MonthBefore(x, y)
         IN  <<m>> \o SortMonths(S \ {m})

list_export_files(fs, export_dir, months) ==
    SortMonths({m \in months :
                  PathExists(FileAt(fs, month_filename_for(export_dir, <<m[1], m[2], 1>>)))})

\* lines 69-80: the frames of one direction, from file number i on
RECURSIVE MonthlyDfs(_, _, _, _, _)
MonthlyDfs(fs, export_dir, listing, i, sheet) ==
    IF i > Len(listing) THEN <<>>
    ELSE LET f == FileAt(fs, month_filename_for(export_dir,
                                                <<listing[i][1], listing[i][2], 1>>))
             rest == MonthlyDfs(fs, export_dir, listing, i + 1, sheet)
         IN  IF f.kind = "xlsx" /\ sheet \in f.names THEN f.rows[sheet] \o rest
             ELSE rest

\* lines 64-83
read_all_monthly(fs, export_dir, months) ==
    LET listing == list_export_files(fs, export_dir, months) IN
    [inward_all |-> MonthlyDfs(fs, export_dir, listing, 1, "Inward"),
     outward_all |-> MonthlyDfs(fs, export_dir, listing, 1, "Outward")]

\* a bulk read of the folder: read_all_monthly
ReadAllMonthly(export_dir, months) ==
    /\ resp' = [Response("read_all", "ok", "none", 0, export_dir) EXCEPT
                   !.rows = read_all_monthly(files, export_dir, months)]
    /\ UNCHANGED <<EXPORT_DIR, customer, item, inward, outward, files,
                   openTruncates, thr>>

------------------------------------------------------------------------------
(* The folder ./exports under both front ends: appends of the Flask        *)
(* handlers and saves of the Streamlit tabs, with writes that can fail,    *)
(* and the reads of the Streamlit functions                                *)

ArchiveDates == {<<2024, 1, 10>>, <<2024, 11, 5>>}
ArchiveMonths == {YearMonth(d) : d \in ArchiveDates}
WriteOutcomes == {"ok", "save_fails"}
StreamlitQtys == {1, 2}

RECURSIVE SumLen(_, _)
SumLen(fs, ps) ==
    IF ps = {} THEN 0
    ELSE LET p == CHOOSE x \in ps : TRUE IN
         Len(fs[p].rows["Inward"]) + Len(fs[p].rows["Outward"]) + SumLen(fs, ps \ {p})

\* the archives hold fewer than n rows
ArchivesBelow(n) == SumLen(files, DOMAIN files) < n

NextStreamlit ==
    \/ /\ JournalBelow(MaxRecords) /\ ArchivesBelow(MaxRecords)
       /\ \E io \in WriteOutcomes : InwardPost(<<2024, 1, 10>>, 1, 1, <<"A">>, 10, 5, io)
    \/ /\ JournalBelow(MaxRecords) /\ ArchivesBelow(MaxRecords)
       /\ \E io \in WriteOutcomes :
             OutwardPost(<<2024, 1, 10>>, 1, 1, <<"A">>, <<"U">>, 10, io)
    \/ /\ ArchivesBelow(MaxRecords)
       /\ \E d \in ArchiveDates, s \in SheetNames, q \in StreamlitQtys,
             io \in WriteOutcomes :
             StreamlitAppend(DEFAULT_EXPORT_DIR, d, s, StreamlitRow(d, q), io)
    \/ \E d \in ArchiveDates, s \in SheetNames :
          ReadSheet(month_filename_for(DEFAULT_EXPORT_DIR, d), s)
    \/ ReadAllMonthly(DEFAULT_EXPORT_DIR, ArchiveMonths)

SpecStreamlit == InitServing /\ [][NextStreamlit]_vars

\* the step is a save of a Streamlit tab
StreamlitStep == ~AppendStep /\ resp'.op = "st_append" /\ (resp' # resp \/ files' # files)

\* the read raised, and not because the file or the sheet is missing
ReadError(r) == r.exc \notin {"none", "ValueError", "KeyError", "FileNotFoundError"}

\* the projection step reads an archive that exists and a read raises: the
\* read of the target sheet (erp_app.py line 76) or of the workbook
\* (streamlit_erp.py line 42), or the read of a sibling sheet the archive
\* has (erp_app.py line 91, from the file as the writer of line 86 left it)
ProjectionReadFails ==
    LET f == FileAt(files, resp'.path)
        sheet_name == resp'.sheet
    IN  /\ PathExists(f)
        /\ \/ ReadError(read_excel(f, sheet_name))
           \/ /\ AppendStep
              /\ OtherSheet(sheet_name) \in f.names
              /\ ReadError(read_excel(ExcelWriterOpen(f, openTruncates, "ok").file,
                                      OtherSheet(sheet_name)))

\* C11: a projection during which a read of the existing archive raises,
\* for another reason than a missing table, is answered as a failure and
\* leaves the archive as it was
C11_ReadFailureReported ==
    [][(AppendStep \/ StreamlitStep) /\ ProjectionReadFails =>
          /\ resp'.status \notin {"redirect", "ok"}
          /\ FileAt(files', resp'.path) = FileAt(files, resp'.path)]_vars

------------------------------------------------------------------------------
(* The order of the rows of GET /overall (specification SpecRecon) *)

\* the rows shown list the records later dates first and, within one date,
\* in the order of their ids
ListedByDateThenId(rows) ==
    \A n, m \in DOMAIN rows :
       n < m =>
          \/ DateAfter(inward[rows[n].id].entry_date, inward[rows[m].id].entry_date)
          \/ /\ inward[rows[n].id].entry_date = inward[rows[m].id].entry_date
             /\ rows[n].id < rows[m].id

\* C12: the rows of the view are ordered most recent entry_date first and
\* by id within one entry_date, and two reads of the same journal under the
\* same filters show the rows in the same order
C12_OrderDetermined ==
    /\ [](resp.op = "overall" => ListedByDateThenId(resp.rows))
    /\ [][(/\ resp.op = "overall" /\ resp'.op = "overall"
           /\ resp'.cust_filter = resp.cust_filter
           /\ resp'.item_filter = resp.item_filter
           /\ inward' = inward /\ outward' = outward)
          => resp'.rows = resp.rows]_vars

------------------------------------------------------------------------------
(* The journal and GET /overall: DC references that differ by blanks or by *)
(* letter case, customer and item ids that include 0, and the view under   *)
(* the filters a request can carry                                         *)

QueryInwardInputs ==
    {[entry_date |-> <<2024, 1, 10>>, customer_id |-> 1, item_id |-> 1, qty |-> 10,
      dc_no_cust |-> <<"A">>],
     [entry_date |-> <<2024, 1, 15>>, customer_id |-> 0, item_id |-> 1, qty |-> 5,
      dc_no_cust |-> <<" ", "A", " ">>],
     [entry_date |-> <<2024, 1, 20>>, customer_id |-> 1, item_id |-> 0, qty |-> 3,
      dc_no_cust |-> <<"a">>],
     [entry_date |-> <<2024, 11, 5>>, customer_id |-> 2, item_id |-> 1, qty |-> 7,
      dc_no_cust |-> <<"a", " ">>]}
QueryOutwardInputs ==
    {[entry_date |-> <<2024, 1, 20>>, customer_id |-> 1, item_id |-> 1, qty |-> 6,
      dc_no_cust |-> <<"a">>],
     [entry_date |-> <<2024, 1, 10>>, customer_id |-> 1, item_id |-> 1, qty |-> 4,
      dc_no_cust |-> <<" ", "A">>]}
QueryFilterInputs ==
    {<<<<>>, <<>>>>, <<<<0>>, <<>>>>, <<<<1>>, <<>>>>, <<<<>>, <<0>>>>,
     <<<<>>, <<1>>>>, <<<<1>>, <<1>>>>}
QueryKeys == {<<"A">>, <<"a">>}

NextQuery ==
    \/ /\ JournalBelow(MaxJournal)
       /\ \E x \in QueryInwardInputs :
             InwardPost(x.entry_date, x.customer_id, x.item_id, x.dc_no_cust,
                        x.qty, 5, "ok")
    \/ /\ JournalBelow(MaxJournal)
       /\ \E x \in QueryOutwardInputs :
             OutwardPost(x.entry_date, x.customer_id, x.item_id, x.dc_no_cust,
                         <<"U">>, x.qty, "ok")
    \/ \E f \in QueryFilterInputs : Overall(f[1], f[2])

SpecQuery == InitServing /\ [][NextQuery]_vars

\* a table with every DC reference replaced by the key of ks it carries
Bare(tbl, ks) ==
    [i \in DOMAIN tbl |->
        [tbl[i] EXCEPT !.dc_no_cust = CHOOSE k \in ks : HasKey(tbl[i].dc_no_cust, k)]]

\* a table without the records that carry the key k
WithoutKey(tbl, k) == SelectSeq(tbl, LAMBDA r : ~HasKey(r.dc_no_cust, k))

\* two references carry the same key
SameKey(dc1, dc2) == \E k \in QueryKeys : HasKey(dc1, k) /\ HasKey(dc2, k)

\* C13: the aggregates are those of the journal with the blanks around
\* every reference removed; a key has an aggregate of its own, which is the
\* sum over the records of that key and stays the same when the records of
\* a key of other letter case are taken away; two rows shown have the same
\* key and the same totals when their references differ by blanks only,
\* and different keys otherwise
C13_KeysTrimmedCaseSensitive ==
    /\ LET dc_map == DcMap(inward, outward) IN
       /\ dc_map = DcMap(Bare(inward, QueryKeys), Bare(outward, QueryKeys))
       /\ \A k1, k2 \in QueryKeys :
             /\ k1 # k2
             /\ \/ \E i \in DOMAIN inward : HasKey(inward[i].dc_no_cust, k1)
                \/ \E i \in DOMAIN outward : HasKey(outward[i].dc_no_cust, k1)
             => /\ k1 \in DOMAIN dc_map
                /\ dc_map[k1].inward = KeyTotal(inward, k1)
                /\ dc_map[k1].outward = KeyTotal(outward, k1)
                /\ dc_map[k1] = DcMap(WithoutKey(inward, k2), WithoutKey(outward, k2))[k1]
    /\ resp.op = "overall" =>
          \A n, m \in DOMAIN resp.rows :
             IF SameKey(inward[resp.rows[n].id].dc_no_cust,
                        inward[resp.rows[m].id].dc_no_cust)
             THEN /\ resp.rows[n].dc_no_cust = resp.rows[m].dc_no_cust
                  /\ resp.rows[n].qty_dispatch = resp.rows[m].qty_dispatch
                  /\ resp.rows[n].pending_qty = resp.rows[m].pending_qty
             ELSE resp.rows[n].dc_no_cust # resp.rows[m].dc_no_cust

\* C13 witness: Inward 10 on "A" and Inward 5 on " A " are both shown with
\* dispatched 0 and pending 15 while the journal holds an Outward 6 on "a"
C13_Witness ==
    /\ resp.op = "overall"
    /\ Len(resp.rows) = 2
    /\ {inward[resp.rows[n].id].dc_no_cust : n \in DOMAIN resp.rows}
          = {<<"A">>, <<" ", "A", " ">>}
    /\ \A n \in DOMAIN resp.rows :
          resp.rows[n].qty_dispatch = 0 /\ resp.rows[n].pending_qty = 15
    /\ \E i \in DOMAIN outward : outward[i].dc_no_cust = <<"a">> /\ outward[i].qty = 6
    /\ DcMap(inward, outward)[<<"a">>] = [inward |-> 0, outward |-> 6]

\* the records the filters of a request select: every filter given is matched
Selected(cust_filter, item_filter) ==
    {i \in DOMAIN inward :
        /\ cust_filter # <<>> => inward[i].customer_id = cust_filter[1]
        /\ item_filter # <<>> => inward[i].item_id = item_filter[1]}

\* C14: the view lists, once each, exactly the Inward records that match
\* every filter of the request
C14_FiltersExact ==
    resp.op = "overall" =>
       /\ {resp.rows[n].id : n \in DOMAIN resp.rows}
             = Selected(resp.cust_filter, resp.item_filter)
       /\ Len(resp.rows) = Cardinality(Selected(resp.cust_filter, resp.item_filter))

------------------------------------------------------------------------------
(* Creation of archives and tables, reads and appends (specification       *)
(* SpecStreamlit)                                                          *)

\* the step is a projection that was answered as done
ProjectedStep ==
    (AppendStep \/ StreamlitStep) /\ resp'.status \in {"redirect", "ok"}

\* after the step the target table of the archive holds one row, the row
\* of the step
HoldsProjectedRowAlone ==
    LET g == FileAt(files', resp'.path) IN
    /\ g.kind = "xlsx"
    /\ resp'.sheet \in g.names
    /\ Len(g.rows[resp'.sheet]) = 1
    /\ AppendStep => g.rows[resp'.sheet][1].src = <<resp'.sheet, resp'.id>>
    /\ StreamlitStep => g.rows[resp'.sheet][1].src = <<"Streamlit", 0>>

\* C15: a projection into a month without archive creates the archive
\* with the projected row alone in the target table; a projection into an
\* archive without the target table creates the table with the projected
\* row alone and keeps the tables the archive had, rows and order
C15_ArchiveAndTableCreated ==
    [][ProjectedStep =>
          LET f == FileAt(files, resp'.path)
              g == FileAt(files', resp'.path)
          IN  /\ ~PathExists(f) => HoldsProjectedRowAlone
              /\ (f.kind = "xlsx" /\ resp'.sheet \notin f.names) =>
                    /\ HoldsProjectedRowAlone
                    /\ \A t \in f.names : t \in g.names /\ g.rows[t] = f.rows[t]]_vars

\* the archive of a (year, month) in the folder ./exports
ArchivePath(m) == month_filename_for(DEFAULT_EXPORT_DIR, <<m[1], m[2], 1>>)

\* C16: read_sheet_from_file returns without error; it returns no rows
\* when the archive does not exist or exists without the table, and the
\* rows of the table, in their order, when the table exists.
\* read_all_monthly returns for each direction the rows of the tables that
\* exist, archives in the order of their months, and nothing for the rest
C16_ReadTable ==
    /\ resp.op = "read_sheet" =>
          LET f == FileAt(files, resp.path) IN
          /\ resp.status = "ok"
          /\ ~PathExists(f) => resp.rows = <<>>
          /\ (f.kind = "xlsx" /\ resp.sheet \notin f.names) => resp.rows = <<>>
          /\ (f.kind = "xlsx" /\ resp.sheet \in f.names) => resp.rows = f.rows[resp.sheet]
    /\ resp.op = "read_all" =>
          /\ resp.status = "ok"
          /\ resp.rows.inward_all
                = SheetRows(files, ArchivePath(<<2024, 1>>), "Inward")
                     \o SheetRows(files, ArchivePath(<<2024, 11>>), "Inward")
          /\ resp.rows.outward_all
                = SheetRows(files, ArchivePath(<<2024, 1>>), "Outward")
                     \o SheetRows(files, ArchivePath(<<2024, 11>>), "Outward")

\* C16 witness: the Outward table is read from an archive that exists with
\* rows in its Inward table and has no Outward table
C16_Witness ==
    /\ resp.op = "read_sheet" /\ resp.sheet = "Outward"
    /\ FileAt(files, resp.path).kind = "xlsx"
    /\ FileAt(files, resp.path).names = {"Inward"}
    /\ SheetRows(files, resp.path, "Inward") # <<>>
    /\ resp.status = "ok" /\ resp.rows = <<>>

------------------------------------------------------------------------------
(* The archives against the journal (specification Spec: sequential        *)
(* appends that all succeed)                                               *)

JournalTable(s) == IF s = "Inward" THEN inward ELSE outward

\* the rows of direction s, over the archives ps, of records of month ym
RECURSIVE RowCount(_, _, _)
RowCount(ps, s, ym) ==
    IF ps = {} THEN 0
    ELSE LET p == CHOOSE x \in ps : TRUE
             rows == SheetRows(files, p, s)
         IN  Cardinality({k \in DOMAIN rows :
                             YearMonth(RecordOf(rows[k]).entry_date) = ym})
                + RowCount(ps \ {p}, s, ym)

\* the journal records of direction s with an entry_date in month ym
JournalCount(s, ym) ==
    Cardinality({i \in DOMAIN JournalTable(s) :
                    YearMonth(JournalTable(s)[i].entry_date) = ym})

\* every archive row is the row of a record of the journal, in the table
\* of its direction, with the record's entry_date
RowsHaveRecords ==
    \A p \in DOMAIN files, s \in SheetNames : \A k \in DOMAIN SheetRows(files, p, s) :
       LET row == SheetRows(files, p, s)[k] IN
       /\ row.src[1] = s
       /\ row.src[2] \in DOMAIN JournalTable(s)
       /\ row.entry_date = StrfDate(JournalTable(s)[row.src[2]].entry_date)

\* C17: for each direction and each (year, month) the archives hold as
\* many rows of that direction and month as the journal holds records, and
\* every archive row belongs to a record the journal already holds
C17_ArchivesMirrorJournal ==
    /\ RowsHaveRecords
    /\ \A s \in SheetNames, d \in Dates :
          RowCount(DOMAIN files, s, YearMonth(d)) = JournalCount(s, YearMonth(d))

------------------------------------------------------------------------------
(* Appends into a table that has rows (specification SpecStreamlit) *)

\* the rows of the Flask handlers stand in every table in the order of
\* their projections, which is the order of their ids
InProjectionOrder ==
    \A p \in DOMAIN files, s \in SheetNames :
       \A k, l \in DOMAIN SheetRows(files, p, s) :
          LET a == SheetRows(files, p, s)[k]
              b == SheetRows(files, p, s)[l]
          IN  (k < l /\ a.src[1] = s /\ b.src[1] = s) => a.src[2] < b.src[2]

\* C18: a projection into a table that has rows leaves those rows as they
\* were, in their order, and adds the projected row after the last of
\* them; the rows of a table stand in the order of their projections
C18_ProjectionAppends ==
    /\ [][LET f == FileAt(files, resp'.path)
              g == FileAt(files', resp'.path)
              sheet_name == resp'.sheet
          IN  (/\ ProjectedStep
               /\ f.kind = "xlsx" /\ sheet_name \in f.names
               /\ f.rows[sheet_name] # <<>>)
              => /\ g.kind = "xlsx" /\ sheet_name \in g.names
                 /\ Len(g.rows[sheet_name]) = Len(f.rows[sheet_name]) + 1
                 /\ SubSeq(g.rows[sheet_name], 1, Len(f.rows[sheet_name]))
                       = f.rows[sheet_name]
                 /\ LET last == g.rows[sheet_name][Len(g.rows[sheet_name])] IN
                    /\ AppendStep => last.src = <<sheet_name, resp'.id>>
                    /\ StreamlitStep => last.src = <<"Streamlit", 0>>]_vars
    /\ []InProjectionOrder

\* C18 witness: after two projections into the Inward table of one archive
\* the table holds the two rows in the order of the projections
C18_Witness ==
    /\ resp.op = "inward" /\ resp.status = "redirect" /\ resp.id = 2
    /\ LET rows == SheetRows(files, resp.path, "Inward") IN
       /\ Len(rows) = 2
       /\ rows[1].src = <<"Inward", 1>>
       /\ rows[2].src = <<"Inward", 2>>

====
